---------------------------- MODULE Spec2Model ----------------------------
(***************************************************************************)
(* Model of the transition engine of typescript-state-machine              *)
(* (StateMachineImpl, State, TransitionListener).                          *)
(*                                                                         *)
(* A State object is modelled by its identity (a string naming the         *)
(* object); its label is looked up with Label.  The engine is a stack      *)
(* machine: setState pushes a dispatch frame, every iteration of the loop  *)
(* of invokeTransitionListeners is one step, and a callback that calls     *)
(* setState pushes a nested frame (the synchronous JavaScript call stack). *)
(* API calls of the host are enabled only when the stack is empty; the     *)
(* calls a callback makes are part of the step that invokes it.            *)
(***************************************************************************)
EXTENDS Integers, Sequences, FiniteSets, TLC

VARIABLES
    machine,               \* constructor arguments: states, validTransitions, initialState
    log,                   \* whether the optional logger (this.log) is present
    _state,                \* StateMachineImpl._state
    _transitionListeners,  \* key -> sequence of TransitionListener references
    listenerRecs,          \* heap of TransitionListener objects, by reference (1..n)
    stack,                 \* dispatch frames of the running setState calls, top last
    trace,                 \* callback invocations of the current top-level setState
    logged,                \* log output of the current top-level call
    lastOp,                \* the host's last setState or wait call and its outcome
    promises,              \* promises returned by the wait primitives
    waits,                 \* closures of waitUntilEnteredOneOf: registrations, finished
    cancelled              \* <<listener, by>>: cancel() was called on the listener's
                           \* handle by the "host" or by a "callback"

vars == <<machine, log, _state, _transitionListeners, listenerRecs, stack, trace,
          logged, lastOp, promises, waits, cancelled>>

-----------------------------------------------------------------------------
(* Bounds of the model *)

MaxListeners == 3

\* Listeners in the specifications whose callbacks cancel, register or call setState.
MaxActors == 2

MaxDepth == 2

\* Length of the array given to waitUntilEnteredOneOf.
MaxWaitStates == 2

MaxWaits == 2

-----------------------------------------------------------------------------
(* State objects *)

Undefined == "undefined"

\* State.label of every State object used by the machines below.  X1 and X2
\* are two distinct objects built with the same label.
Label(s) ==
    CASE s = "X1" -> "X"
      [] s = "X2" -> "X"
      [] OTHER -> s

\* Array.prototype.indexOf, 0-based, -1 when absent (identity comparison).
indexOf(seq, x) ==
    IF \E i \in 1..Len(seq) : seq[i] = x
    THEN (CHOOSE i \in 1..Len(seq) : seq[i] = x /\ \A j \in 1..(i - 1) : seq[j] # x) - 1
    ELSE -1

\* Array.prototype.splice(index, 2), index 0-based.
splice_Two(seq, index) == SubSeq(seq, 1, index) \o SubSeq(seq, index + 3, Len(seq))

\* Array.prototype.splice(index, 1), index 0-based.
splice(seq, index) ==
    [i \in 1..(Len(seq) - 1) |-> IF i <= index THEN seq[i] ELSE seq[i + 1]]

Range(seq) == {seq[i] : i \in 1..Len(seq)}

-----------------------------------------------------------------------------
(* Machines: the arguments given to the constructor *)

\* The machine of the decorator tests.
CanonicalMachine ==
    [states |-> <<"INIT", "IDLE", "WORKING", "DONE">>,
     validTransitions |-> [INIT |-> <<"IDLE", "WORKING">>,
                           IDLE |-> <<"WORKING">>,
                           WORKING |-> <<"DONE">>,
                           DONE |-> <<>>],
     initialState |-> "INIT"]

\* The machine of the currentState tests: every state lists itself.
PlayerMachine ==
    [states |-> <<"STOPPED", "PLAYING">>,
     validTransitions |-> [STOPPED |-> <<"PLAYING", "STOPPED">>,
                           PLAYING |-> <<"STOPPED", "PLAYING">>],
     initialState |-> "PLAYING"]

\* A table with no entry for state B.
PartialMachine ==
    [states |-> <<"A", "B">>,
     validTransitions |-> [A |-> <<"B", "A">>],
     initialState |-> "A"]

\* Two State objects with the same label "X"; the single entry "X" lists X2 and Z.
AliasMachine ==
    [states |-> <<"X1", "X2", "Z">>,
     validTransitions |-> [X |-> <<"X2", "Z">>, Z |-> <<"X1">>],
     initialState |-> "X1"]

\* A table that lists state B, which is not among the declared states.
OpenMachine ==
    [states |-> <<"A">>,
     validTransitions |-> [A |-> <<"B", "A">>, B |-> <<"A">>],
     initialState |-> "A"]

\* An initial state B that is not among the declared states, and a declared
\* state C that no entry lists.
StrayMachine ==
    [states |-> <<"A", "C">>,
     validTransitions |-> [A |-> <<"A">>, B |-> <<"A">>, C |-> <<"A">>],
     initialState |-> "B"]

StatesOf(m) == Range(m.states)

-----------------------------------------------------------------------------
(* Callbacks: what a listener's callBack does when invoked with (from, to) *)

Callback(kind, from, to, ref) == [kind |-> kind, from |-> from, to |-> to, ref |-> ref]

CbNop == Callback("nop", Undefined, Undefined, 0)

CbThrow == Callback("throw", Undefined, Undefined, 0)

\* calls this.setState(target)
CbSetState(target) == Callback("setState", Undefined, target, 0)

\* calls cancel() on the registration handle of listener ref
CbCancel(ref) == Callback("cancel", Undefined, Undefined, ref)

\* calls addTransitionListener(nop, from, to) through one of the on* methods
CbRegister(from, to) == Callback("register", from, to, 0)

\* the closure of waitUntilLeft resolving promise ref
CbWaitLeft(ref) == Callback("waitLeft", Undefined, Undefined, ref)

\* the closure of waitUntilEnteredOneOf of wait ref
CbWaitEntered(ref) == Callback("waitEntered", Undefined, Undefined, ref)

-----------------------------------------------------------------------------
(* Pure helpers of StateMachineImpl *)

\* transitionLabel keyed by the State objects instead of their labels.
transitionLabel_ByIdentity(fromState, toState) ==
    (IF fromState # Undefined THEN fromState ELSE "*")
        \o " --> " \o
    (IF toState # Undefined THEN toState ELSE "*")

\* transitionLabel: an absent state or an empty label gives the wildcard.
transitionLabel(fromState, toState) ==
    (IF fromState # Undefined /\ Label(fromState) # "" THEN Label(fromState) ELSE "*")
        \o " --> " \o
    (IF toState # Undefined /\ Label(toState) # "" THEN Label(toState) ELSE "*")

\* canGoToState letting every transition through.
canGoToState_Always(m, current, newState) == [threw |-> FALSE, value |-> TRUE]

\* canGoToState refusing a state as its own successor.
canGoToState_NoSelf(m, current, newState) ==
    IF Label(current) \in DOMAIN m.validTransitions
    THEN [threw |-> FALSE,
          value |-> newState # current
                    /\ indexOf(m.validTransitions[Label(current)], newState) # -1]
    ELSE [threw |-> TRUE, value |-> FALSE]

\* canGoToState comparing labels where the code compares State objects.
canGoToState_ByLabel(m, current, newState) ==
    IF Label(current) \in DOMAIN m.validTransitions
    THEN [threw |-> FALSE,
          value |-> \E s \in Range(m.validTransitions[Label(current)]) :
                        Label(s) = Label(newState)]
    ELSE [threw |-> TRUE, value |-> FALSE]

\* canGoToState: validTransitions[_state.label].indexOf(newState) !== -1.
\* With no entry for the label the property read of undefined throws a TypeError.
canGoToState(m, current, newState) ==
    IF Label(current) \in DOMAIN m.validTransitions
    THEN [threw |-> FALSE,
          value |-> indexOf(m.validTransitions[Label(current)], newState) # -1]
    ELSE [threw |-> TRUE, value |-> FALSE]

\* checkTransition: the error setState ends with, or "none".
checkTransition(m, current, newState) ==
    LET can == canGoToState(m, current, newState)
    IN  IF can.threw THEN "TypeError"
        ELSE IF ~can.value THEN "InvalidTransition"
        ELSE "none"

\* The test of waitUntilLeft: the state is already another one.
alreadyLeft(current, state) == current # state

\* The test of waitUntilEnteredOneOf taking index 0 for "not found".
alreadyEntered_Truthy(current, states) == indexOf(states, current) > 0

\* The test of waitUntilEnteredOneOf: the state is already one of states.
alreadyEntered(current, states) == indexOf(states, current) # -1

\* inState comparing labels where the code compares State objects.
inState_ByLabel(current, state) == Label(current) = Label(state)

\* inState, inOneOfStates
inState(current, state) == current = state

inOneOfStates(current, states) == indexOf(states, current) # -1

\* new TransitionListener starting inactive.
TransitionListener_Inactive(callBack, fromState, toState) ==
    [callBack |-> callBack, fromState |-> fromState, toState |-> toState, active |-> FALSE]

\* new TransitionListener(callBack, fromState, toState): active = true
TransitionListener(callBack, fromState, toState) ==
    [callBack |-> callBack, fromState |-> fromState, toState |-> toState, active |-> TRUE]

\* addTransitionListener putting the new record at the head of the list.
addTransitionListener_Unshift(tl, recs, callBack, fromState, toState) ==
    LET transition == transitionLabel(fromState, toState)
        base == IF transition \in DOMAIN tl THEN tl ELSE tl @@ (transition :> <<>>)
        id == Len(recs) + 1
    IN  [tl |-> [base EXCEPT ![transition] = <<id>> \o @],
         recs |-> Append(recs, TransitionListener(callBack, fromState, toState)),
         id |-> id]

\* addTransitionListener on a registry tl and a heap recs: the list of the key is
\* created when absent and the new record is pushed at its end.
addTransitionListener(tl, recs, callBack, fromState, toState) ==
    LET transition == transitionLabel(fromState, toState)
        base == IF transition \in DOMAIN tl THEN tl ELSE tl @@ (transition :> <<>>)
        id == Len(recs) + 1
    IN  [tl |-> [base EXCEPT ![transition] = Append(@, id)],
         recs |-> Append(recs, TransitionListener(callBack, fromState, toState)),
         id |-> id]

\* cancel() leaving the record active.
cancel_NoEffect(recs, id) == recs

\* ListenerRegistration.cancel() of listener id
cancel(recs, id) == [recs EXCEPT ![id].active = FALSE]

\* cancel() of every listener in ids
RECURSIVE cancelAll(_, _)
cancelAll(recs, ids) ==
    IF ids = <<>> THEN recs ELSE cancelAll(cancel(recs, Head(ids)), Tail(ids))

\* The four keys with the enter-listeners probed before the exact ones.
PhaseKey_EnterFirst(phase, fromState, toState) ==
    CASE phase = 1 -> transitionLabel(fromState, Undefined)
      [] phase = 2 -> transitionLabel(Undefined, toState)
      [] phase = 3 -> transitionLabel(fromState, toState)
      [] OTHER -> transitionLabel(Undefined, Undefined)

\* The key probed by each of the four calls of invokeAllTransitionListeners.
PhaseKey(phase, fromState, toState) ==
    CASE phase = 1 -> transitionLabel(fromState, Undefined)
      [] phase = 2 -> transitionLabel(fromState, toState)
      [] phase = 3 -> transitionLabel(Undefined, toState)
      [] OTHER -> transitionLabel(Undefined, Undefined)

\* The dispatch called with its arguments exchanged.
Frame_Swapped(fromState, toState) ==
    [fromState |-> toState, toState |-> fromState, phase |-> 1, index |-> 0]

\* A dispatch frame: the arguments of invokeAllTransitionListeners, the call of
\* invokeTransitionListeners it is in and that loop's index.
Frame(fromState, toState) ==
    [fromState |-> fromState, toState |-> toState, phase |-> 1, index |-> 0]

Top == stack[Len(stack)]

TopKey == PhaseKey(Top.phase, Top.fromState, Top.toState)

\* The list the running loop iterates: undefined when the key was never registered.
TopHasList == TopKey \in DOMAIN _transitionListeners

TopList == _transitionListeners[TopKey]

\* The running calls after every loop that has nothing left to visit has ended:
\* a loop whose condition fails (or that has no list) ends, after which
\* invokeAllTransitionListeners makes its next call of invokeTransitionListeners
\* with the list then under that key, or returns after the fourth, which returns
\* setState to the callback that called it (whose loop then does index++, already
\* counted in its frame) or to the host.
RECURSIVE Settle(_, _)
Settle(stk, tl) ==
    IF stk = <<>> THEN stk
    ELSE LET f == stk[Len(stk)]
             key == PhaseKey(f.phase, f.fromState, f.toState)
             done == IF key \in DOMAIN tl THEN f.index >= Len(tl[key]) ELSE TRUE
         IN  IF ~done THEN stk
             ELSE IF f.phase < 4
             THEN Settle([stk EXCEPT ![Len(stk)] = [@ EXCEPT !.phase = @ + 1, !.index = 0]],
                         tl)
             ELSE Settle(SubSeq(stk, 1, Len(stk) - 1), tl)

\* The outcome of the host's setState once the stack is stk.
Outcome(stk) == IF stk = <<>> THEN "ok" ELSE "running"

\* index++ of the running loop
Advance(stk) == [stk EXCEPT ![Len(stk)].index = @ + 1]

\* new Promise by the wait primitive op called with states: pending, with the
\* call that made it; the continuation the caller attaches to it (then, await)
\* has not run.
Promise(op, states) ==
    [status |-> "pending", value |-> Undefined, resolveCalls |-> 0,
     op |-> op, states |-> states, calledIn |-> _state, continued |-> FALSE]

\* resolve(value) running the continuation of the promise inside the call.
resolve_Sync(ps, p, value) ==
    [ps EXCEPT ![p] = [@ EXCEPT !.status = "resolved",
                                !.value = IF ps[p].status = "pending" THEN value ELSE @,
                                !.resolveCalls = @ + 1,
                                !.continued = TRUE]]

\* resolve(value): only the first call settles the promise.
resolve(ps, p, value) ==
    [ps EXCEPT ![p] = [@ EXCEPT !.status = "resolved",
                                !.value = IF ps[p].status = "pending" THEN value ELSE @,
                                !.resolveCalls = @ + 1]]

\* An API call of the host: its name, its state argument, the listener or promise
\* it made or used, how it ended, and the current state when it was made.
Op(op, state, ref, outcome) ==
    [op |-> op, state |-> state, states |-> <<>>, ref |-> ref, outcome |-> outcome,
     before |-> _state]

\* What a registration or a cancellation leaves in lastOp.
NoOp == Op("none", Undefined, 0, "ok")

-----------------------------------------------------------------------------
(* setState and the dispatch loop *)

logDebug(lg) == IF log THEN Append(lg, "debug") ELSE lg

logError(lg) == IF log THEN Append(lg, "error") ELSE lg

\* setState assigning _state before checkTransition.
SetState_AssignFirst(newState) ==
    /\ stack = <<>>
    /\ trace' = <<>>
    /\ _state' = newState
    /\ LET error == checkTransition(machine, _state, newState)
       IN  IF error # "none"
           THEN /\ lastOp' = Op("setState", newState, 0, error)
                /\ logged' = <<>>
                /\ UNCHANGED stack
           ELSE /\ logged' = logDebug(<<>>)
                /\ stack' = Settle(<<Frame(_state, newState)>>, _transitionListeners)
                /\ lastOp' = Op("setState", newState, 0, Outcome(stack'))
    /\ UNCHANGED <<machine, log, _transitionListeners, listenerRecs, promises, waits,
                   cancelled>>

\* setState(newState) called by the host.  checkTransition throws before anything
\* is assigned; otherwise _state is assigned and the dispatch starts.
SetState(newState) ==
    /\ stack = <<>>
    /\ trace' = <<>>
    /\ LET error == checkTransition(machine, _state, newState)
       IN  IF error # "none"
           THEN /\ lastOp' = Op("setState", newState, 0, error)
                /\ logged' = <<>>
                /\ UNCHANGED <<_state, stack>>
           ELSE /\ logged' = logDebug(<<>>)
                /\ _state' = newState
                /\ stack' = Settle(<<Frame(_state, newState)>>, _transitionListeners)
                /\ lastOp' = Op("setState", newState, 0, Outcome(stack'))
    /\ UNCHANGED <<machine, log, _transitionListeners, listenerRecs, promises, waits,
                   cancelled>>

\* The engine as a callback leaves it when it does nothing to it: the loop goes on.
Same ==
    [state |-> _state, stack |-> Advance(stack), tl |-> _transitionListeners,
     recs |-> listenerRecs, logged |-> logged, promises |-> promises, waits |-> waits,
     cancelled |-> cancelled, threw |-> FALSE, nested |-> FALSE, enabled |-> TRUE]

\* setState called by a callback assigning the state without dispatching.
NestedSetState_NoDispatch(target) ==
    IF checkTransition(machine, _state, target) # "none"
    THEN [Same EXCEPT !.logged = logError(logged), !.threw = TRUE]
    ELSE [Same EXCEPT !.state = target, !.nested = TRUE, !.logged = logDebug(logged)]

\* setState called by a callback dispatching without assigning the state.
NestedSetState_NoAssign(target) ==
    IF checkTransition(machine, _state, target) # "none"
    THEN [Same EXCEPT !.logged = logError(logged), !.threw = TRUE]
    ELSE [Same EXCEPT !.nested = TRUE,
                      !.stack = Append(Advance(stack), Frame(_state, target)),
                      !.logged = logDebug(logged),
                      !.enabled = Len(stack) < MaxDepth]

\* this.setState(target) called by a callback: an error is thrown into the
\* try/catch of the loop, a valid target starts a nested dispatch on top of the
\* running one.
NestedSetState(target) ==
    IF checkTransition(machine, _state, target) # "none"
    THEN [Same EXCEPT !.logged = logError(logged), !.threw = TRUE]
    ELSE [Same EXCEPT !.state = target,
                      !.nested = TRUE,
                      !.stack = Append(Advance(stack), Frame(_state, target)),
                      !.logged = logDebug(logged),
                      !.enabled = Len(stack) < MaxDepth]

\* A callback registering a listener whose record starts inactive.
NestedRegister_Inactive(fromState, toState) ==
    LET added == addTransitionListener(_transitionListeners, listenerRecs, CbNop,
                                       fromState, toState)
    IN  [Same EXCEPT !.tl = added.tl, !.recs = cancel(added.recs, added.id),
                     !.enabled = Len(listenerRecs) < MaxListeners]

\* A callback registering a listener through one of the on* methods.
NestedRegister(fromState, toState) ==
    LET added == addTransitionListener(_transitionListeners, listenerRecs, CbNop,
                                       fromState, toState)
    IN  [Same EXCEPT !.tl = added.tl, !.recs = added.recs,
                     !.enabled = Len(listenerRecs) < MaxListeners]

\* A callback calling cancel() on the handle of listener ref, held in a variable
\* of its closure: while that listener is not registered yet the variable is
\* undefined and the call throws into the try/catch of the loop.
CancelCallback(ref) ==
    IF ref \in 1..Len(listenerRecs)
    THEN [Same EXCEPT !.recs = cancel(listenerRecs, ref),
                      !.cancelled = cancelled \cup {<<ref, "callback">>}]
    ELSE [Same EXCEPT !.logged = logError(logged), !.threw = TRUE]

\* The closure of waitUntilLeft without registration.cancel().
WaitLeftCallback_NoCancel(id, p, toState) ==
    [Same EXCEPT !.promises = resolve(promises, p, toState)]

\* The closure of waitUntilLeft: registration.cancel(); resolve(to).
WaitLeftCallback(id, p, toState) ==
    [Same EXCEPT !.recs = cancel(listenerRecs, id),
                 !.cancelled = cancelled \cup {<<id, "callback">>},
                 !.promises = resolve(promises, p, toState)]

\* The closure of waitUntilEnteredOneOf cancelling only its own registration.
WaitEnteredCallback_SelfOnly(id, w, toState) ==
    [Same EXCEPT !.recs = cancel(listenerRecs, id),
                 !.cancelled = cancelled \cup {<<id, "callback">>},
                 !.waits = [waits EXCEPT ![w].finished = TRUE],
                 !.promises = resolve(promises, waits[w].promise, toState)]

\* The closure of waitUntilEnteredOneOf: cancels itself and its siblings, sets
\* finished and resolves with the entered state.
WaitEnteredCallback(id, w, toState) ==
    [Same EXCEPT !.recs = cancelAll(cancel(listenerRecs, id),
                                    SelectSeq(waits[w].registrations, LAMBDA reg : reg # id)),
                 !.cancelled = cancelled \cup
                                  {<<reg, "callback">> : reg \in Range(waits[w].registrations)},
                 !.waits = [waits EXCEPT ![w].finished = TRUE],
                 !.promises = resolve(promises, waits[w].promise, toState)]

\* The callback invoked without try/catch: an exception unwinds every running
\* loop and setState call.
invokeCallBack_Uncaught(id, cb, fromState, toState) ==
    CASE cb.kind = "nop" -> Same
      [] cb.kind = "throw" -> [Same EXCEPT !.stack = <<>>, !.threw = TRUE]
      [] cb.kind = "setState" -> NestedSetState(cb.to)
      [] cb.kind = "cancel" -> CancelCallback(cb.ref)
      [] cb.kind = "register" -> NestedRegister(cb.from, cb.to)
      [] cb.kind = "waitLeft" -> WaitLeftCallback(id, cb.ref, toState)
      [] cb.kind = "waitEntered" -> WaitEnteredCallback(id, cb.ref, toState)

\* The catch block calling this.log.error without the optional chaining: with no
\* logger the TypeError of that call leaves the loop and every running setState.
invokeCallBack_LoggerRequired(id, cb, fromState, toState) ==
    CASE cb.kind = "nop" -> Same
      [] cb.kind = "throw" ->
             IF log THEN [Same EXCEPT !.logged = logError(logged), !.threw = TRUE]
             ELSE [Same EXCEPT !.stack = <<>>, !.threw = TRUE]
      [] cb.kind = "setState" -> NestedSetState(cb.to)
      [] cb.kind = "cancel" -> CancelCallback(cb.ref)
      [] cb.kind = "register" -> NestedRegister(cb.from, cb.to)
      [] cb.kind = "waitLeft" -> WaitLeftCallback(id, cb.ref, toState)
      [] cb.kind = "waitEntered" -> WaitEnteredCallback(id, cb.ref, toState)

\* listener.callBack(fromState, toState) inside try/catch.
invokeCallBack(id, cb, fromState, toState) ==
    CASE cb.kind = "nop" -> Same
      [] cb.kind = "throw" -> [Same EXCEPT !.logged = logError(logged), !.threw = TRUE]
      [] cb.kind = "setState" -> NestedSetState(cb.to)
      [] cb.kind = "cancel" -> CancelCallback(cb.ref)
      [] cb.kind = "register" -> NestedRegister(cb.from, cb.to)
      [] cb.kind = "waitLeft" -> WaitLeftCallback(id, cb.ref, toState)
      [] cb.kind = "waitEntered" -> WaitEnteredCallback(id, cb.ref, toState)

\* The listeners whose cancel() was called.
Cancelled == {c[1] : c \in cancelled}

\* One record of the trace: which listener was invoked, with which arguments, by
\* the dispatch at which depth and phase, the engine as the callback found it,
\* whether the callback threw and whether it started a nested transition.
Invocation(id, eff) ==
    [listener |-> id, fromState |-> Top.fromState, toState |-> Top.toState,
     depth |-> Len(stack), phase |-> Top.phase, state |-> _state,
     wasCancelled |-> id \in Cancelled, threw |-> eff.threw, nested |-> eff.nested]

\* The loop body for an active listener: the callback is invoked.
InvokeListener ==
    /\ stack # <<>>
    /\ TopHasList
    /\ Top.index < Len(TopList)
    /\ LET id == TopList[Top.index + 1]
           eff == invokeCallBack(id, listenerRecs[id].callBack, Top.fromState, Top.toState)
       IN  /\ listenerRecs[id].active
           /\ eff.enabled
           /\ trace' = Append(trace, Invocation(id, eff))
           /\ _state' = eff.state
           /\ stack' = Settle(eff.stack, eff.tl)
           /\ lastOp' = [lastOp EXCEPT !.outcome = Outcome(stack')]
           /\ _transitionListeners' = eff.tl
           /\ listenerRecs' = eff.recs
           /\ logged' = eff.logged
           /\ promises' = eff.promises
           /\ waits' = eff.waits
           /\ cancelled' = eff.cancelled
    /\ UNCHANGED <<machine, log>>

\* The loop body for an inactive listener without the index--.
RemoveInactive_NoDecrement ==
    /\ stack # <<>>
    /\ TopHasList
    /\ Top.index < Len(TopList)
    /\ ~listenerRecs[TopList[Top.index + 1]].active
    /\ _transitionListeners' =
           [_transitionListeners EXCEPT ![TopKey] = splice(@, Top.index)]
    /\ stack' = Settle(Advance(stack), _transitionListeners')
    /\ lastOp' = [lastOp EXCEPT !.outcome = Outcome(stack')]
    /\ UNCHANGED <<machine, log, _state, listenerRecs, trace, logged, promises, waits,
                   cancelled>>

\* The loop body for an inactive listener stepping over it without the splice.
RemoveInactive_Skip ==
    /\ stack # <<>>
    /\ TopHasList
    /\ Top.index < Len(TopList)
    /\ ~listenerRecs[TopList[Top.index + 1]].active
    /\ stack' = Settle(Advance(stack), _transitionListeners)
    /\ lastOp' = [lastOp EXCEPT !.outcome = Outcome(stack')]
    /\ UNCHANGED <<machine, log, _state, _transitionListeners, listenerRecs, trace,
                   logged, promises, waits, cancelled>>

\* The loop body for an inactive listener: listeners.splice(index, 1); index--
\* and the loop's index++ leave the index where it was.
RemoveInactive ==
    /\ stack # <<>>
    /\ TopHasList
    /\ Top.index < Len(TopList)
    /\ ~listenerRecs[TopList[Top.index + 1]].active
    /\ _transitionListeners' =
           [_transitionListeners EXCEPT ![TopKey] = splice(@, Top.index)]
    /\ stack' = Settle(stack, _transitionListeners')
    /\ lastOp' = [lastOp EXCEPT !.outcome = Outcome(stack')]
    /\ UNCHANGED <<machine, log, _state, listenerRecs, trace, logged, promises, waits,
                   cancelled>>

-----------------------------------------------------------------------------
(* Registration, cancellation and the wait primitives, called by the host *)

HostCall == stack = <<>>

\* addTransitionListener called by the host through the on* method named op.
Register(op, callBack, fromState, toState) ==
    /\ HostCall
    /\ Len(listenerRecs) < MaxListeners
    /\ LET added == addTransitionListener(_transitionListeners, listenerRecs, callBack,
                                          fromState, toState)
       IN  /\ _transitionListeners' = added.tl
           /\ listenerRecs' = added.recs
           /\ lastOp' = NoOp
    /\ trace' = <<>>
    /\ logged' = <<>>
    /\ UNCHANGED <<machine, log, _state, stack, promises, waits, cancelled>>

OnEnterState(state, callBack) == Register("onEnterState", callBack, Undefined, state)

OnLeaveState(state, callBack) == Register("onLeaveState", callBack, state, Undefined)

OnTransition(fromState, toState, callBack) ==
    Register("onTransition", callBack, fromState, toState)

OnAnyTransition(callBack) == Register("onAnyTransition", callBack, Undefined, Undefined)

\* The handles the host holds: those of the listeners it registered itself (the
\* wait primitives keep theirs in their closures).
HostHandles ==
    {id \in 1..Len(listenerRecs) :
        listenerRecs[id].callBack.kind \notin {"waitLeft", "waitEntered"}}

\* cancel() on the handle of listener id, called by the host.
Cancel(id) ==
    /\ HostCall
    /\ id \in HostHandles
    /\ listenerRecs' = cancel(listenerRecs, id)
    /\ cancelled' = cancelled \cup {<<id, "host">>}
    /\ lastOp' = NoOp
    /\ trace' = <<>>
    /\ logged' = <<>>
    /\ UNCHANGED <<machine, log, _state, _transitionListeners, stack, promises, waits>>

\* A query of the host: nothing but the record of the call changes.
Query(op) ==
    /\ HostCall
    /\ lastOp' = op
    /\ trace' = <<>>
    /\ logged' = <<>>
    /\ UNCHANGED <<machine, log, _state, _transitionListeners, listenerRecs, stack,
                   promises, waits, cancelled>>

\* canGoToState(newState) called by the host: the boolean returned, or the
\* TypeError of the read of a missing table entry.
CanGoToState(newState) ==
    LET can == canGoToState(machine, _state, newState)
    IN  Query(Op("canGoToState", newState, 0,
                 IF can.threw THEN "TypeError" ELSE IF can.value THEN "true" ELSE "false"))

\* checkInState(state) called by the host: returns, or throws an Error.
CheckInState(state) ==
    Query(Op("checkInState", state, 0, IF inState(_state, state) THEN "ok" ELSE "Error"))

\* checkInOneOfStates(states) called by the host: returns, or throws an Error.
CheckInOneOfStates(states) ==
    Query([Op("checkInOneOfStates", Undefined, 0,
              IF inOneOfStates(_state, states) THEN "ok" ELSE "Error")
              EXCEPT !.states = states])

\* The getter state read by the host: the value returned.
GetState == Query(Op("state", Undefined, 0, _state))

\* inState(state) called by the host: the boolean returned.
InState(state) ==
    Query(Op("inState", state, 0, IF inState(_state, state) THEN "true" ELSE "false"))

\* inOneOfStates(states) called by the host: the boolean returned.
InOneOfStates(states) ==
    Query([Op("inOneOfStates", Undefined, 0,
              IF inOneOfStates(_state, states) THEN "true" ELSE "false")
              EXCEPT !.states = states])

\* waitUntilLeft(state): the executor of the promise runs at once.
WaitUntilLeft(state) ==
    /\ HostCall
    /\ Len(promises) < MaxWaits
    /\ LET p == Len(promises) + 1
       IN  IF alreadyLeft(_state, state)
           THEN /\ promises' = resolve(Append(promises, Promise("waitUntilLeft", <<state>>)),
                                       p, _state)
                /\ UNCHANGED <<_transitionListeners, listenerRecs>>
           ELSE /\ Len(listenerRecs) < MaxListeners
                /\ LET added == addTransitionListener(_transitionListeners, listenerRecs,
                                                      CbWaitLeft(p), state, Undefined)
                   IN  /\ _transitionListeners' = added.tl
                       /\ listenerRecs' = added.recs
                /\ promises' = Append(promises, Promise("waitUntilLeft", <<state>>))
    /\ lastOp' = Op("waitUntilLeft", state, Len(promises) + 1, "ok")
    /\ trace' = <<>>
    /\ logged' = <<>>
    /\ UNCHANGED <<machine, log, _state, stack, waits, cancelled>>

\* The for loop of waitUntilEnteredOneOf over the states not yet visited: each
\* gets an enter-listener whose handle is pushed to registrations; finished is
\* still false after each, since registering invokes nothing.
RECURSIVE registerEach(_, _, _, _, _)
registerEach(tl, recs, registrations, states, w) ==
    IF states = <<>>
    THEN [tl |-> tl, recs |-> recs, registrations |-> registrations]
    ELSE LET added == addTransitionListener(tl, recs, CbWaitEntered(w), Undefined,
                                            Head(states))
         IN  registerEach(added.tl, added.recs, Append(registrations, added.id),
                          Tail(states), w)

\* waitUntilEnteredOneOf(states), called under the name op.
WaitEntered(op, states) ==
    /\ HostCall
    /\ Len(promises) < MaxWaits
    /\ LET p == Len(promises) + 1
           w == Len(waits) + 1
       IN  IF alreadyEntered(_state, states)
           THEN /\ promises' = resolve(Append(promises, Promise(op, states)), p, _state)
                /\ UNCHANGED <<_transitionListeners, listenerRecs, waits>>
           ELSE /\ Len(listenerRecs) + Len(states) <= MaxListeners
                /\ LET done == registerEach(_transitionListeners, listenerRecs, <<>>,
                                            states, w)
                   IN  /\ _transitionListeners' = done.tl
                       /\ listenerRecs' = done.recs
                       /\ waits' = Append(waits, [registrations |-> done.registrations,
                                                  finished |-> FALSE, promise |-> p])
                /\ promises' = Append(promises, Promise(op, states))
    /\ lastOp' = [Op(op, Undefined, Len(promises) + 1, "ok") EXCEPT !.states = states]
    /\ trace' = <<>>
    /\ logged' = <<>>
    /\ UNCHANGED <<machine, log, _state, stack, cancelled>>

WaitUntilEnteredOneOf(states) == WaitEntered("waitUntilEnteredOneOf", states)

\* waitUntilEntered(state) is waitUntilEnteredOneOf([state]).
WaitUntilEntered(state) == WaitEntered("waitUntilEntered", <<state>>)

\* The continuation attached to promise p runs: a job of the promise, which the
\* JavaScript run-to-completion rule starts only when no call is running.
\* Nothing of the engine changes.
RunContinuation(p) ==
    /\ HostCall
    /\ p \in 1..Len(promises)
    /\ promises[p].status = "resolved"
    /\ ~promises[p].continued
    /\ promises' = [promises EXCEPT ![p].continued = TRUE]
    /\ UNCHANGED <<machine, log, _state, _transitionListeners, listenerRecs, stack, trace,
                   logged, lastOp, waits, cancelled>>

\* this.log is assigned or cleared (the field is optional and set by the
\* subclass, not by the constructor).
SetLogger ==
    /\ log' = ~log
    /\ UNCHANGED <<machine, _state, _transitionListeners, listenerRecs, stack, trace,
                   logged, lastOp, promises, waits, cancelled>>

-----------------------------------------------------------------------------
(* Decorators: a method of the machine wrapped by a guard, called by the host *)

\* What the wrapped methods of the decorator tests return.
OriginalResult == "true"

\* The guard let the call through: the original method ran and the wrapper
\* returned result.
Ran(result) == [outcome |-> "returned", ran |-> TRUE, result |-> result, warned |-> FALSE]

\* The wrapper threw without calling the original method.
Thrown == [outcome |-> "threw", ran |-> FALSE, result |-> Undefined, warned |-> FALSE]

\* The wrapper called this.log?.warn and returned nothing.
Skipped == [outcome |-> "returned", ran |-> FALSE, result |-> Undefined, warned |-> TRUE]

\* decorators.ts, CheckStateIs: return originalMethod.apply(this, args), or throw.
CheckStateIs(current, state) ==
    IF current = state THEN Ran(OriginalResult) ELSE Thrown

\* index.ts, fsm.CheckStateIs: originalMethod.apply(context, arguments) without
\* a return statement, or throw.
fsm_CheckStateIs(current, state) ==
    IF current = state THEN Ran(Undefined) ELSE Thrown

\* decorators.ts, CheckStateIn (the same in index.ts, fsm.CheckStateIn).
CheckStateIn(current, states) ==
    IF indexOf(states, current) # -1 THEN Ran(OriginalResult) ELSE Thrown

fsm_CheckStateIn(current, states) ==
    IF indexOf(states, current) # -1 THEN Ran(OriginalResult) ELSE Thrown

\* decorators.ts, CheckStateNotIn
CheckStateNotIn(current, states) ==
    IF indexOf(states, current) = -1 THEN Ran(OriginalResult) ELSE Thrown

\* AssumeStateIs calling the original method without returning its result.
AssumeStateIs_NoReturn(current, state) ==
    IF current = state THEN Ran(Undefined) ELSE Skipped

\* decorators.ts, AssumeStateIs
AssumeStateIs(current, state) ==
    IF current = state THEN Ran(OriginalResult) ELSE Skipped

\* decorators.ts, AssumeStateIsNot
AssumeStateIsNot(current, state) ==
    IF current # state THEN Ran(OriginalResult) ELSE Skipped

\* decorators.ts, AssumeStateIsIn: states.includes(this.state)
AssumeStateIsIn(current, states) ==
    IF current \in Range(states) THEN Ran(OriginalResult) ELSE Skipped

\* decorators.ts, AssumeStateIsNotIn
AssumeStateIsNotIn(current, states) ==
    IF current \notin Range(states) THEN Ran(OriginalResult) ELSE Skipped

logWarn(lg) == IF log THEN Append(lg, "warn") ELSE lg

\* A call by the host of a method wrapped by decorator op of module with the
\* decorator's argument state or states, ending as res says.
GuardedCall(op, module, state, states, res) ==
    /\ HostCall
    /\ lastOp' = [op |-> op, module |-> module, state |-> state, states |-> states,
                  ref |-> 0, outcome |-> res.outcome, before |-> _state,
                  ran |-> res.ran, result |-> res.result]
    /\ logged' = IF res.warned THEN logWarn(<<>>) ELSE <<>>
    /\ trace' = <<>>
    /\ UNCHANGED <<machine, log, _state, _transitionListeners, listenerRecs, stack,
                   promises, waits, cancelled>>

\* The calls of methods wrapped by the guards that throw.
CheckedCall ==
    \/ \E s \in StatesOf(machine) :
           GuardedCall("CheckStateIs", "decorators", s, <<>>, CheckStateIs(_state, s))
    \/ \E s \in StatesOf(machine) :
           GuardedCall("CheckStateIs", "fsm", s, <<>>, fsm_CheckStateIs(_state, s))
    \/ \E S \in UNION {[1..n -> StatesOf(machine)] : n \in 0..MaxWaitStates} :
           GuardedCall("CheckStateIn", "decorators", Undefined, S, CheckStateIn(_state, S))
    \/ \E S \in UNION {[1..n -> StatesOf(machine)] : n \in 0..MaxWaitStates} :
           GuardedCall("CheckStateIn", "fsm", Undefined, S, fsm_CheckStateIn(_state, S))
    \/ \E S \in UNION {[1..n -> StatesOf(machine)] : n \in 0..MaxWaitStates} :
           GuardedCall("CheckStateNotIn", "decorators", Undefined, S,
                       CheckStateNotIn(_state, S))

\* The calls of methods wrapped by the guards that skip.
AssumedCall ==
    \/ \E s \in StatesOf(machine) :
           GuardedCall("AssumeStateIs", "decorators", s, <<>>, AssumeStateIs(_state, s))
    \/ \E s \in StatesOf(machine) :
           GuardedCall("AssumeStateIsNot", "decorators", s, <<>>,
                       AssumeStateIsNot(_state, s))
    \/ \E S \in UNION {[1..n -> StatesOf(machine)] : n \in 0..MaxWaitStates} :
           GuardedCall("AssumeStateIsIn", "decorators", Undefined, S,
                       AssumeStateIsIn(_state, S))
    \/ \E S \in UNION {[1..n -> StatesOf(machine)] : n \in 0..MaxWaitStates} :
           GuardedCall("AssumeStateIsNotIn", "decorators", Undefined, S,
                       AssumeStateIsNotIn(_state, S))

-----------------------------------------------------------------------------
(* Specifications *)

\* The engine right after construction, for a machine among machines.
InitWith(machines, loggers) ==
    /\ machine \in machines
    /\ log \in loggers
    /\ _state = machine.initialState
    /\ _transitionListeners = <<>>
    /\ listenerRecs = <<>>
    /\ stack = <<>>
    /\ trace = <<>>
    /\ logged = <<>>
    /\ lastOp = Op("new", Undefined, 0, "ok")
    /\ promises = <<>>
    /\ waits = <<>>
    /\ cancelled = {}

(* The transition table: every machine, every target, and catch-all listeners
   that do nothing or call setState themselves. *)
TableMachines == {CanonicalMachine, PlayerMachine, PartialMachine, AliasMachine}

TableCallbacks == {CbNop} \cup {CbSetState(t) : t \in StatesOf(machine)}

InitTable == InitWith(TableMachines, {TRUE})

NextTable ==
    \/ \E t \in StatesOf(machine) : SetState(t)
    \/ \E cb \in TableCallbacks : OnAnyTransition(cb)
    \/ InvokeListener

SpecTable == InitTable /\ [][NextTable]_vars

\* The host registering, with callback cb, a listener of one of the four
\* granularities of the transition f --> t.
RegisterFor(f, t, cb) ==
    \/ OnLeaveState(f, cb)
    \/ OnTransition(f, t, cb)
    \/ OnEnterState(t, cb)
    \/ OnAnyTransition(cb)

(* Dispatch order: the player machine, listeners of the four granularities of
   PLAYING --> STOPPED that do nothing, cancellations by the host, and every
   transition of the table. *)
InitOrder == InitWith({PlayerMachine}, {TRUE})

NextOrder ==
    \/ \E t \in StatesOf(machine) : SetState(t)
    \/ RegisterFor("PLAYING", "STOPPED", CbNop)
    \/ \E id \in 1..MaxListeners : Cancel(id)
    \/ InvokeListener
    \/ RemoveInactive

SpecOrder == InitOrder /\ [][NextOrder]_vars

(* Cancellation: as above, with callbacks that cancel a listener (themselves,
   an earlier or a later one) while the dispatch is running. *)
CancelCallbacks == {CbNop} \cup {CbCancel(ref) : ref \in 1..MaxActors}

InitCancel == InitWith({PlayerMachine}, {TRUE})

NextCancel ==
    \/ \E t \in StatesOf(machine) : SetState(t)
    \/ \E cb \in CancelCallbacks :
           Len(listenerRecs) < MaxActors /\ RegisterFor("PLAYING", "STOPPED", cb)
    \/ \E id \in 1..MaxActors : Cancel(id)
    \/ InvokeListener
    \/ RemoveInactive

SpecCancel == InitCancel /\ [][NextCancel]_vars

(* Throwing callbacks: the player machine with and without a logger, listeners
   of the four granularities of PLAYING --> STOPPED that do nothing or throw. *)
ThrowCallbacks == {CbNop, CbThrow}

InitThrow == InitWith({PlayerMachine}, BOOLEAN)

NextThrow ==
    \/ \E t \in StatesOf(machine) : SetState(t)
    \/ \E cb \in ThrowCallbacks : RegisterFor("PLAYING", "STOPPED", cb)
    \/ InvokeListener

SpecThrow == InitThrow /\ [][NextThrow]_vars

(* Reentrancy: listeners of the four granularities of PLAYING --> STOPPED that
   do nothing or call setState. *)
ReentrantCallbacks == {CbNop} \cup {CbSetState(t) : t \in StatesOf(machine)}

InitReentrant == InitWith({PlayerMachine}, {TRUE})

NextReentrant ==
    \/ \E t \in StatesOf(machine) : SetState(t)
    \/ \E cb \in ReentrantCallbacks : RegisterFor("PLAYING", "STOPPED", cb)
    \/ InvokeListener

SpecReentrant == InitReentrant /\ [][NextReentrant]_vars

(* The wait primitives: the player machine, waits on every state and every
   array of states, and every transition of the table. *)
WaitArrays == UNION {[1..n -> StatesOf(machine)] : n \in 0..MaxWaitStates}

InitWait == InitWith({PlayerMachine}, {TRUE})

NextWait ==
    \/ \E t \in StatesOf(machine) : SetState(t)
    \/ \E s \in StatesOf(machine) : WaitUntilLeft(s)
    \/ \E s \in StatesOf(machine) : WaitUntilEntered(s)
    \/ \E states \in WaitArrays : WaitUntilEnteredOneOf(states)
    \/ InvokeListener
    \/ RemoveInactive

SpecWait == InitWait /\ [][NextWait]_vars

\* The first edge of the table of machine m: its initial state and the first
\* state listed for it.
FirstEdge(m) == <<m.initialState, m.validTransitions[Label(m.initialState)][1]>>

\* The states the table of machine m lists for state s.
Successors(m, s) == Range(m.validTransitions[Label(s)])

(* Waits under reentrancy: the canonical and the player machine, one wait for
   an array of states the machine is not in, listeners of the four granularities
   of the machine's first edge that call setState with a successor of that
   edge's target, and every transition of the table. *)
InitWaitReentrant == InitWith({CanonicalMachine, PlayerMachine}, {TRUE})

NextWaitReentrant ==
    \/ \E t \in StatesOf(machine) : SetState(t)
    \/ \E states \in WaitArrays :
           /\ promises = <<>>
           /\ ~alreadyEntered(_state, states)
           /\ WaitUntilEnteredOneOf(states)
    \/ \E t \in Successors(machine, FirstEdge(machine)[2]) :
           /\ Len(listenerRecs) < MaxActors
           /\ RegisterFor(FirstEdge(machine)[1], FirstEdge(machine)[2], CbSetState(t))
    \/ InvokeListener
    \/ RemoveInactive

SpecWaitReentrant == InitWaitReentrant /\ [][NextWaitReentrant]_vars

(* Queries: every machine, catch-all listeners that do nothing, every
   transition, and the queries and assertions on every state. *)
InitQuery == InitWith(TableMachines, {TRUE})

NextQuery ==
    \/ \E t \in StatesOf(machine) : SetState(t)
    \/ OnAnyTransition(CbNop)
    \/ \E t \in StatesOf(machine) : CanGoToState(t)
    \/ \E t \in StatesOf(machine) : CheckInState(t)
    \/ \E states \in WaitArrays : CheckInOneOfStates(states)
    \/ InvokeListener

SpecQuery == InitQuery /\ [][NextQuery]_vars

\* The states reachable from the states in set by edges of the table of machine m.
RECURSIVE Reach(_, _)
Reach(m, set) ==
    LET next == set \cup UNION {Successors(m, s) :
                                    s \in {r \in set : Label(r) \in DOMAIN m.validTransitions}}
    IN  IF next = set THEN set ELSE Reach(m, next)

\* The State objects the host of machine m holds: the declared states, the
\* initial state and the states the table lists.
Objects(m) ==
    StatesOf(m) \cup {m.initialState}
        \cup UNION {Range(m.validTransitions[l]) : l \in DOMAIN m.validTransitions}

(* The current state: every machine, also those whose table or initial state
   goes outside the declared states; setState with every State object by the
   host, and by catch-all listeners with the state after the first edge; host
   cancellations; one wait on any object. *)
CurrentMachines == TableMachines \cup {OpenMachine, StrayMachine}

\* The states listed first for the target of the first edge of machine m: none
\* when the table has no entry for it or an empty one.
SecondTargets(m) ==
    LET l == Label(FirstEdge(m)[2])
    IN  IF l \in DOMAIN m.validTransitions /\ m.validTransitions[l] # <<>>
        THEN {m.validTransitions[l][1]}
        ELSE {}

\* Callbacks that do nothing or call setState with such a state.
CurrentCallbacks == {CbNop} \cup {CbSetState(t) : t \in SecondTargets(machine)}

InitCurrent == InitWith(CurrentMachines, {TRUE})

NextCurrent ==
    \/ \E t \in Objects(machine) : SetState(t)
    \/ \E cb \in CurrentCallbacks :
           Len(listenerRecs) < MaxActors /\ OnAnyTransition(cb)
    \/ \E id \in 1..MaxActors : Cancel(id)
    \/ \E s \in Objects(machine) : promises = <<>> /\ WaitUntilLeft(s)
    \/ \E s \in Objects(machine) : promises = <<>> /\ WaitUntilEntered(s)
    \/ InvokeListener
    \/ RemoveInactive

SpecCurrent == InitCurrent /\ [][NextCurrent]_vars

(* Decorators: the machine of the decorator tests and the one with two objects
   of one label, with and without a logger, every transition, and every guarded
   call with every state or array of states as the decorator's argument. *)
InitGuard == InitWith({CanonicalMachine, AliasMachine}, BOOLEAN)

NextGuard ==
    \/ \E t \in StatesOf(machine) : SetState(t)
    \/ CheckedCall
    \/ AssumedCall

SpecGuard == InitGuard /\ [][NextGuard]_vars

(* The logger: the player machine starting with or without a logger, which may
   be set or cleared at any time; listeners of the four granularities of
   PLAYING --> STOPPED that do nothing or throw, host cancellations, calls of a
   method wrapped with AssumeStateIs, and every transition. *)
InitLogger == InitWith({PlayerMachine}, BOOLEAN)

NextLogger ==
    \/ \E t \in StatesOf(machine) : SetState(t)
    \/ \E cb \in ThrowCallbacks :
           Len(listenerRecs) < MaxActors /\ RegisterFor("PLAYING", "STOPPED", cb)
    \/ \E id \in 1..MaxActors : Cancel(id)
    \/ \E s \in StatesOf(machine) :
           GuardedCall("AssumeStateIs", "decorators", s, <<>>, AssumeStateIs(_state, s))
    \/ InvokeListener
    \/ RemoveInactive
    \/ SetLogger

SpecLogger == InitLogger /\ [][NextLogger]_vars

(* The live list under reentrancy: the canonical machine, listeners of every
   transition and of its first edge that do nothing, cancel their own
   registration or call setState with the state after that edge, and every
   transition. *)
LiveCallbacks ==
    {CbNop, CbCancel(Len(listenerRecs) + 1)}
        \cup {CbSetState(t) : t \in SecondTargets(machine)}

InitLive == InitWith({CanonicalMachine}, {TRUE})

NextLive ==
    \/ \E t \in StatesOf(machine) : SetState(t)
    \/ \E cb \in LiveCallbacks : OnAnyTransition(cb)
    \/ \E cb \in LiveCallbacks :
           OnTransition(FirstEdge(machine)[1], FirstEdge(machine)[2], cb)
    \/ InvokeListener
    \/ RemoveInactive

SpecLive == InitLive /\ [][NextLive]_vars

(* Continuations: the player machine, waits on its states, catch-all listeners
   that do nothing, every transition, and the continuations of the promises. *)
InitContinue == InitWith({PlayerMachine}, {TRUE})

NextContinue ==
    \/ \E t \in StatesOf(machine) : SetState(t)
    \/ \E s \in StatesOf(machine) : WaitUntilLeft(s)
    \/ \E s \in StatesOf(machine) : WaitUntilEntered(s)
    \/ Len(listenerRecs) < MaxActors /\ OnAnyTransition(CbNop)
    \/ InvokeListener
    \/ RemoveInactive
    \/ \E p \in 1..MaxWaits : RunContinuation(p)

SpecContinue == InitContinue /\ [][NextContinue]_vars

(* Every operation: the canonical machine, listeners of the four granularities
   of its first edge that do nothing, host cancellations, one wait of each
   kind, every query and assertion with the states of that edge as arguments,
   and every setState. *)
FrameStates == {FirstEdge(machine)[1], FirstEdge(machine)[2]}

FrameArray == <<FirstEdge(machine)[2], FirstEdge(machine)[1]>>

InitFrame == InitWith({CanonicalMachine}, {TRUE})

NextFrame ==
    \/ \E t \in StatesOf(machine) : SetState(t)
    \/ /\ Len(listenerRecs) < MaxActors
       /\ RegisterFor(FirstEdge(machine)[1], FirstEdge(machine)[2], CbNop)
    \/ \E id \in 1..MaxActors : Cancel(id)
    \/ \E s \in FrameStates : promises = <<>> /\ WaitUntilLeft(s)
    \/ promises = <<>> /\ WaitUntilEntered(FirstEdge(machine)[2])
    \/ promises = <<>> /\ WaitUntilEnteredOneOf(FrameArray)
    \/ GetState
    \/ InState(FirstEdge(machine)[2])
    \/ InOneOfStates(FrameArray)
    \/ \E t \in FrameStates : CanGoToState(t)
    \/ CheckInState(FirstEdge(machine)[2])
    \/ CheckInOneOfStates(FrameArray)
    \/ InvokeListener
    \/ RemoveInactive

SpecFrame == InitFrame /\ [][NextFrame]_vars

(* Two State objects with one label: the machine with X1 and X2, listeners of
   every granularity for every pair of its objects that do nothing, inState on
   every object, and every setState. *)
InitAlias == InitWith({AliasMachine}, {TRUE})

NextAlias ==
    \/ \E t \in StatesOf(machine) : SetState(t)
    \/ \E f \in StatesOf(machine), t \in StatesOf(machine) :
           Len(listenerRecs) < MaxActors /\ RegisterFor(f, t, CbNop)
    \/ \E s \in StatesOf(machine) : InState(s)
    \/ InvokeListener

SpecAlias == InitAlias /\ [][NextAlias]_vars

(* Registration inside a dispatch: the player machine, exact and catch-all
   listeners of PLAYING --> STOPPED that do nothing or register a listener of one
   of the four granularities of that transition or of leaving STOPPED, host
   cancellations, and every transition. *)
RegisterCallbacks ==
    {CbNop, CbRegister("PLAYING", Undefined), CbRegister("PLAYING", "STOPPED"),
     CbRegister(Undefined, "STOPPED"), CbRegister(Undefined, Undefined),
     CbRegister("STOPPED", Undefined)}

InitRegister == InitWith({PlayerMachine}, {TRUE})

NextRegister ==
    \/ \E t \in StatesOf(machine) : SetState(t)
    \/ \E cb \in RegisterCallbacks :
           Len(listenerRecs) < MaxActors /\ OnTransition("PLAYING", "STOPPED", cb)
    \/ \E cb \in RegisterCallbacks :
           Len(listenerRecs) < MaxActors /\ OnAnyTransition(cb)
    \/ \E id \in 1..MaxActors : Cancel(id)
    \/ InvokeListener
    \/ RemoveInactive

SpecRegister == InitRegister /\ [][NextRegister]_vars

-----------------------------------------------------------------------------
(* Claims about the transition table *)

\* The table has an entry for the label of state c.
HasEntry(c) == Label(c) \in DOMAIN machine.validTransitions

\* State t is, by identity, in the entry of the label of state c.
Listed(c, t) == HasEntry(c) /\ t \in Range(machine.validTransitions[Label(c)])

\* The host's last call was setState.
IsSetState == lastOp.op = "setState"

\* No callback of the host's setState started a nested transition.
NoNested == \A i \in 1..Len(trace) : ~trace[i].nested

\* C1 as stated: once setState(t) with t listed for the current state has
\* returned, the current state is t.
C1_StateIsTargetAtReturn ==
    (IsSetState /\ Listed(lastOp.before, lastOp.state) /\ lastOp.outcome = "ok")
        => _state = lastOp.state

\* C1, amended: setState(t) with t listed for the current state c never fails;
\* the first callback it invokes finds the state to be t (the assignment comes
\* before the dispatch); and when it returns the state is t, unless one of its
\* callbacks called setState with a valid target, in which case the state is the
\* target of the last such call.
C1_ListedTargetSucceeds ==
    (IsSetState /\ Listed(lastOp.before, lastOp.state))
        => /\ lastOp.outcome \in {"running", "ok"}
           /\ trace # <<>> => /\ trace[1].state = lastOp.state
                              /\ trace[1].fromState = lastOp.before
                              /\ trace[1].toState = lastOp.state
           /\ (lastOp.outcome = "ok" /\ NoNested)
                  => /\ inState(_state, lastOp.state)
                     /\ \A u \in StatesOf(machine) \ {lastOp.state} : ~inState(_state, u)
           /\ (lastOp.outcome = "ok" /\ trace # <<>> /\ ~NoNested)
                  => \E i \in 1..Len(trace) :
                        /\ trace[i].nested
                        /\ listenerRecs[trace[i].listener].callBack.to = _state

\* A self-transition the table lists has returned after invoking a listener, and
\* the state is its target.
C1_Witness ==
    /\ IsSetState
    /\ Listed(lastOp.before, lastOp.state)
    /\ lastOp.before = lastOp.state
    /\ lastOp.outcome = "ok"
    /\ trace # <<>>
    /\ NoNested
    /\ _state = lastOp.state

\* C2: setState(x) with x not in the existing entry of the current state's label
\* fails with InvalidTransition, the state stays what it was and no listener is
\* invoked.
C2_UnlistedTargetFails ==
    (IsSetState /\ HasEntry(lastOp.before) /\ ~Listed(lastOp.before, lastOp.state))
        => /\ lastOp.outcome = "InvalidTransition"
           /\ _state = lastOp.before
           /\ stack = <<>>
           /\ trace = <<>>

\* The canonical scenario: setState(DONE) from IDLE has failed, a listener being
\* registered; and a state the table does not list for itself was refused.
C2_Witness ==
    /\ IsSetState
    /\ lastOp.before = "IDLE"
    /\ lastOp.state = "DONE"
    /\ lastOp.outcome = "InvalidTransition"
    /\ _state = "IDLE"
    /\ listenerRecs # <<>>

\* C3: with no entry for the current state's label, setState fails with the
\* InvalidTransition error and leaves the state unchanged.
C3_MissingEntryIsInvalidTransition ==
    (IsSetState /\ ~HasEntry(lastOp.before))
        => /\ lastOp.outcome = "InvalidTransition"
           /\ _state = lastOp.before

-----------------------------------------------------------------------------
(* Claims about the dispatch of one transition *)

\* The granularity of a listener record, by its filters: 1 leave, 2 exact,
\* 3 enter, 4 catch-all.
Group(rec) ==
    IF rec.fromState # Undefined
    THEN (IF rec.toState = Undefined THEN 1 ELSE 2)
    ELSE (IF rec.toState # Undefined THEN 3 ELSE 4)

\* The filters of a listener record accept the transition f --> t.
Matches(rec, f, t) ==
    /\ rec.fromState \in {Undefined, f}
    /\ rec.toState \in {Undefined, t}

\* The listeners that are active and accept f --> t.
ActiveMatching(f, t) ==
    {id \in 1..Len(listenerRecs) :
        listenerRecs[id].active /\ Matches(listenerRecs[id], f, t)}

\* The positions before position j of the trace that belong to the same
\* dispatch at the same depth (no shallower entry in between).
SameDispatchBefore(j) ==
    {i \in 1..(j - 1) :
        /\ trace[i].depth = trace[j].depth
        /\ \A k \in i..j : trace[k].depth >= trace[j].depth}

TraceListeners == {trace[i].listener : i \in 1..Len(trace)}

\* C4: in the dispatch of a transition the listeners are invoked leave-listeners
\* first, then exact, then enter, then catch-all; when a listener is invoked,
\* every active listener of an earlier group accepting the transition has
\* already been invoked.
C4_GroupsInOrder ==
    \A j \in 1..Len(trace) :
        /\ \A i \in SameDispatchBefore(j) :
               Group(listenerRecs[trace[i].listener]) <= Group(listenerRecs[trace[j].listener])
        /\ \A id \in ActiveMatching(trace[j].fromState, trace[j].toState) :
               Group(listenerRecs[id]) < Group(listenerRecs[trace[j].listener])
                   => \E i \in SameDispatchBefore(j) : trace[i].listener = id

\* A dispatch of PLAYING --> STOPPED has invoked a leave-, an exact- and an
\* enter- or catch-all listener, in that order, registered in another order.
C4_Witness ==
    /\ Len(trace) = 3
    /\ lastOp.outcome = "ok"
    /\ Group(listenerRecs[trace[1].listener]) = 1
    /\ Group(listenerRecs[trace[2].listener]) = 2
    /\ Group(listenerRecs[trace[3].listener]) >= 3
    /\ trace[1].listener > trace[3].listener

\* C5: two listeners under the same key invoked by one dispatch are invoked in
\* the order of their registration (references grow with registration).
C5_RegistrationOrder ==
    \A j \in 1..Len(trace) : \A i \in SameDispatchBefore(j) :
        transitionLabel(listenerRecs[trace[i].listener].fromState,
                        listenerRecs[trace[i].listener].toState)
          = transitionLabel(listenerRecs[trace[j].listener].fromState,
                            listenerRecs[trace[j].listener].toState)
        => trace[i].listener < trace[j].listener

\* Three listeners under one key, the second cancelled and compacted out of the
\* list by an earlier dispatch; a later dispatch invoked the first, then the third.
C5_Witness ==
    /\ Len(trace) = 2
    /\ trace[1].listener = 1
    /\ trace[2].listener = 3
    /\ 2 \in Cancelled
    /\ \E key \in DOMAIN _transitionListeners : _transitionListeners[key] = <<1, 3>>
    /\ trace[1].phase = trace[2].phase

\* C6: a dispatch invokes listeners accepting the transition only, with the
\* transition as arguments, none twice; and when setState has returned, the
\* listeners invoked are exactly the active listeners accepting the transition.
C6_ExactlyTheMatching ==
    IsSetState =>
        /\ \A i \in 1..Len(trace) :
               /\ trace[i].fromState = lastOp.before
               /\ trace[i].toState = lastOp.state
               /\ Matches(listenerRecs[trace[i].listener], lastOp.before, lastOp.state)
        /\ \A i \in 1..Len(trace), j \in 1..Len(trace) :
               i # j => trace[i].listener # trace[j].listener
        /\ lastOp.outcome = "ok"
               => TraceListeners = ActiveMatching(lastOp.before, lastOp.state)

\* STOPPED --> STOPPED has returned: of three registered listeners one accepts it
\* and was invoked, one accepts it but was cancelled, one does not accept it.
C6_Witness ==
    /\ IsSetState
    /\ lastOp.outcome = "ok"
    /\ lastOp.before = "STOPPED"
    /\ lastOp.state = "STOPPED"
    /\ Len(trace) = 1
    /\ Len(listenerRecs) = 3
    /\ \E id \in 1..3 : /\ ~listenerRecs[id].active
                        /\ Matches(listenerRecs[id], "STOPPED", "STOPPED")
    /\ \E id \in 1..3 : /\ listenerRecs[id].active
                        /\ ~Matches(listenerRecs[id], "STOPPED", "STOPPED")

\* C7: no callback invocation is of a listener whose cancel() had been called,
\* by the host or by a callback of a running dispatch; and a listener is
\* inactive exactly when cancel() was called on it, however many times.
C7_CancelledNeverInvoked ==
    /\ \A i \in 1..Len(trace) : ~trace[i].wasCancelled
    /\ \A id \in 1..Len(listenerRecs) : listenerRecs[id].active <=> id \notin Cancelled

\* A listener cancelled by a callback during an earlier dispatch (never by the
\* host) accepts the transition that has just returned and was not invoked,
\* while another listener was.
C7_Witness ==
    /\ IsSetState
    /\ lastOp.outcome = "ok"
    /\ trace # <<>>
    /\ \E id \in 1..Len(listenerRecs) :
           /\ <<id, "callback">> \in cancelled
           /\ <<id, "host">> \notin cancelled
           /\ Matches(listenerRecs[id], lastOp.before, lastOp.state)
           /\ id \notin TraceListeners
           /\ \A i \in 1..Len(trace) :
                  listenerRecs[trace[i].listener].callBack.kind = "nop"

\* The number of elements of seq satisfying Test.
Count(seq, Test(_)) == Cardinality({i \in 1..Len(seq) : Test(seq[i])})

\* C8: a callback that throws is caught by the loop: setState still returns
\* normally with the target as state, having invoked every active listener
\* accepting the transition once, those after the throwing one included; each
\* throw is logged once when there is a logger.
C8_ThrowDoesNotAbort ==
    (IsSetState /\ Listed(lastOp.before, lastOp.state))
        => /\ lastOp.outcome \in {"running", "ok"}
           /\ _state = lastOp.state
           /\ lastOp.outcome = "ok"
                  => /\ TraceListeners = ActiveMatching(lastOp.before, lastOp.state)
                     /\ Len(trace) = Cardinality(TraceListeners)
           /\ Count(logged, LAMBDA l : l = "error")
                  = (IF log THEN Count(trace, LAMBDA e : e.threw) ELSE 0)

\* A dispatch has returned in which the first listener invoked threw and a
\* listener of the same key and one of a later phase were invoked after it.
C8_Witness ==
    /\ IsSetState
    /\ lastOp.outcome = "ok"
    /\ Len(trace) = 3
    /\ trace[1].threw
    /\ trace[2].phase = trace[1].phase
    /\ trace[3].phase > trace[1].phase
    /\ ~log

\* The position after i of the first invocation made, after the one at
\* position i, by the dispatch that made that one or by an enclosing dispatch;
\* Len(trace) + 1 when there is none yet.
NextAtDepth(i) ==
    IF \E j \in (i + 1)..Len(trace) : trace[j].depth <= trace[i].depth
    THEN CHOOSE j \in (i + 1)..Len(trace) :
            /\ trace[j].depth <= trace[i].depth
            /\ \A k \in (i + 1)..(j - 1) : trace[k].depth > trace[i].depth
    ELSE Len(trace) + 1

\* The invocations made by the dispatch of the nested transition that the
\* callback invoked at position i started.
NestedOf(i) ==
    {k \in (i + 1)..(NextAtDepth(i) - 1) : trace[k].depth = trace[i].depth + 1}

\* The callback invoked at position i has returned.
Returned(i) == NextAtDepth(i) <= Len(trace) \/ stack = <<>>

\* C9: when a callback calls setState with a valid target, the invocations of
\* the nested dispatch come right after it, with the nested transition as
\* arguments, the first finding the target as state; and before the dispatch
\* that invoked the callback invokes another listener or returns, the nested
\* dispatch has invoked every active listener accepting the nested transition.
C9_NestedRunsToCompletion ==
    \A i \in 1..Len(trace) :
        trace[i].nested =>
            LET target == listenerRecs[trace[i].listener].callBack.to
            IN  /\ \A k \in NestedOf(i) : /\ trace[k].fromState = trace[i].state
                                          /\ trace[k].toState = target
                /\ (i + 1) \in NestedOf(i) => trace[i + 1].state = target
                /\ Returned(i)
                       => {trace[k].listener : k \in NestedOf(i)}
                              = ActiveMatching(trace[i].state, target)

\* The host's setState has returned: its first callback started a nested
\* transition whose dispatch invoked a listener, after which the outer dispatch
\* invoked another listener.
C9_Witness ==
    /\ IsSetState
    /\ lastOp.outcome = "ok"
    /\ Len(trace) = 3
    /\ trace[1].nested
    /\ trace[1].depth = 1
    /\ trace[2].depth = 2
    /\ trace[3].depth = 1
    /\ trace[2].toState # trace[3].toState

-----------------------------------------------------------------------------
(* Claims about the wait primitives *)

\* The listeners whose callback resolves promise p.
ListenersOf(p) ==
    {id \in 1..Len(listenerRecs) :
        LET cb == listenerRecs[id].callBack
        IN  \/ cb.kind = "waitLeft" /\ cb.ref = p
            \/ cb.kind = "waitEntered" /\ waits[cb.ref].promise = p}

\* Promise p was made by waitUntilLeft(s) in a state other than s, or by
\* waitUntilEntered / waitUntilEnteredOneOf in one of the states waited for.
Immediate(p) ==
    IF promises[p].op = "waitUntilLeft"
    THEN promises[p].calledIn # promises[p].states[1]
    ELSE promises[p].calledIn \in Range(promises[p].states)

\* C10: such a promise is resolved by the call itself with the state current at
\* the call, no listener is registered for it, and whatever transitions follow
\* it keeps that value and is never resolved again.
C10_ImmediateResolution ==
    \A p \in 1..Len(promises) :
        Immediate(p)
            => /\ promises[p].status = "resolved"
               /\ promises[p].value = promises[p].calledIn
               /\ promises[p].resolveCalls = 1
               /\ ListenersOf(p) = {}

\* After a transition: a promise of waitUntilLeft and one of waitUntilEnteredOneOf
\* that resolved at once still hold the state that was current at their calls,
\* which is no longer the current state.
C10_Witness ==
    /\ stack = <<>>
    /\ Len(promises) = 2
    /\ Immediate(1)
    /\ Immediate(2)
    /\ promises[1].op = "waitUntilLeft"
    /\ promises[2].op = "waitUntilEnteredOneOf"
    /\ Len(promises[2].states) = 2
    /\ promises[1].value # _state
    /\ promises[2].value # _state

-----------------------------------------------------------------------------
(* Claims about waits that register listeners *)

\* Promise p was made by waitUntilLeft(s) in state s.
WaitingLeft(p) == promises[p].op = "waitUntilLeft" /\ ~Immediate(p)

\* The records of the trace that invoke a listener of promise p.
FiringsOf(p) == {i \in 1..Len(trace) : trace[i].listener \in ListenersOf(p)}

C12_AtMostOneFires ==
    \A w \in 1..Len(waits) :
        LET p == waits[w].promise
            S == promises[p].states
            regs == waits[w].registrations
            resolved == promises[p].status = "resolved"
        IN  /\ ~Immediate(p)
            /\ Len(regs) = Len(S)
            /\ ListenersOf(p) = Range(regs)
            /\ \A i \in 1..Len(regs) :
                   /\ listenerRecs[regs[i]].toState = S[i]
                   /\ listenerRecs[regs[i]].fromState = Undefined
                   /\ listenerRecs[regs[i]].active = ~resolved
            /\ promises[p].resolveCalls = (IF resolved THEN 1 ELSE 0)
            /\ waits[w].finished = resolved
            /\ resolved => promises[p].value \in Range(S)
            /\ Cardinality(FiringsOf(p)) <= 1
            /\ \A i \in FiringsOf(p) :
                   /\ ~trace[i].wasCancelled
                   /\ resolved
                   /\ promises[p].value = trace[i].toState

\* A wait for two different states was resolved by the entry of the first, and
\* later in the same setState a nested transition has entered the second, whose
\* dispatch invoked a listener but none of the wait.
C12_Witness ==
    /\ Len(waits) >= 1
    /\ LET p == waits[1].promise
           S == promises[p].states
       IN  /\ Len(S) = 2
           /\ S[2] # S[1]
           /\ promises[p].status = "resolved"
           /\ promises[p].value = S[1]
           /\ Cardinality(FiringsOf(p)) = 1
           /\ \E i \in 1..Len(trace) :
                  /\ trace[i].depth >= 2
                  /\ trace[i].toState = S[2]
                  /\ \A j \in FiringsOf(p) : j < i
    /\ stack = <<>>

\* The transition fromState --> toState is one promise p waits for.
Matching(p, fromState, toState) ==
    IF promises[p].op = "waitUntilLeft"
    THEN fromState = promises[p].states[1]
    ELSE toState \in Range(promises[p].states)

\* Listener id is in the list of its key.
Registered(id) ==
    LET key == transitionLabel(listenerRecs[id].fromState, listenerRecs[id].toState)
    IN  key \in DOMAIN _transitionListeners /\ id \in Range(_transitionListeners[key])

\* A promise is pending or resolved; while pending, each of its listeners is
\* active and in the list of its key, and between the host's calls the machine
\* is still where no transition the promise waits for has happened.
C13_PendingKeepsListeners ==
    \A p \in 1..Len(promises) :
        /\ promises[p].status \in {"pending", "resolved"}
        /\ promises[p].status = "pending"
               => /\ ~Immediate(p)
                  /\ promises[p].resolveCalls = 0
                  /\ Cardinality(ListenersOf(p)) = Len(promises[p].states)
                  /\ \A id \in ListenersOf(p) : listenerRecs[id].active /\ Registered(id)
                  /\ stack = <<>> =>
                         IF promises[p].op = "waitUntilLeft"
                         THEN _state = promises[p].states[1]
                         ELSE _state \notin Range(promises[p].states)

\* A pending promise changes only by being resolved, by a callback the dispatch
\* of a transition it waits for invokes, with the target of that transition.
C13_ResolvedOnlyByMatch ==
    \A p \in 1..Len(promises) :
        (promises[p].status = "pending" /\ promises'[p] # promises[p])
            => /\ stack # <<>>
               /\ Matching(p, Top.fromState, Top.toState)
               /\ promises'[p].status = "resolved"
               /\ promises'[p].value = Top.toState

\* C13: the promises of the wait primitives are never rejected; one that did not
\* resolve at once stays pending, its listeners registered and active, through
\* every call and transition that is not one it waits for, and the first
\* successful transition it waits for resolves it.
C13_PendingUntilMatch == []C13_PendingKeepsListeners /\ [][C13_ResolvedOnlyByMatch]_vars

\* waitUntilEntered is still pending after a successful transition that did not
\* enter its state, the same transition having resolved a waitUntilLeft.
C13_Witness ==
    /\ Len(promises) = 2
    /\ ~Immediate(1)
    /\ ~Immediate(2)
    /\ promises[1].op = "waitUntilEntered"
    /\ promises[1].status = "pending"
    /\ promises[2].op = "waitUntilLeft"
    /\ promises[2].status = "resolved"
    /\ IsSetState
    /\ lastOp.outcome = "ok"

-----------------------------------------------------------------------------
(* Claims about the queries and assertions *)

\* The host's last call was canGoToState.
IsCanGoToState == lastOp.op = "canGoToState"

\* canGoToState(t) answers by the membership of t, by identity, in the table
\* entry of the current state.
C14_AnswerIsMembership ==
    IsCanGoToState
        => /\ lastOp.outcome = "true" <=> Listed(_state, lastOp.state)
           /\ lastOp.outcome = "false" <=> (HasEntry(_state) /\ ~Listed(_state, lastOp.state))
           /\ lastOp.before = _state
           /\ stack = <<>>
           /\ trace = <<>>

\* setState(t) called right after canGoToState(t) succeeds exactly when the
\* answer was true and fails with InvalidTransition exactly when it was false; and
\* the call of canGoToState leaves the state, the registry and the listeners as
\* they were.
C14_AgreesWithSetState ==
    /\ (IsCanGoToState /\ lastOp'.op = "setState" /\ lastOp'.state = lastOp.state)
           => /\ lastOp.outcome = "true" <=> lastOp'.outcome \in {"ok", "running"}
              /\ lastOp.outcome = "true" => _state' = lastOp.state
              /\ lastOp.outcome # "true" => UNCHANGED <<_state, stack>>
              /\ lastOp.outcome = "false" <=> lastOp'.outcome = "InvalidTransition"
    /\ (lastOp'.op = "canGoToState" /\ stack = <<>>)
           => UNCHANGED <<_state, _transitionListeners, listenerRecs, stack>>

\* C14: canGoToState(candidate) returns true exactly when setState(candidate)
\* would succeed from the current state and false when it would fail with
\* InvalidTransition, and it changes neither the state nor any listener list and
\* invokes no listener.
C14_CanGoToStateIsTheGate == []C14_AnswerIsMembership /\ [][C14_AgreesWithSetState]_vars

\* canGoToState has answered false for a state that has the label of a listed
\* state but is another object, with a listener registered.
C14_Witness ==
    /\ IsCanGoToState
    /\ lastOp.outcome = "false"
    /\ \E s \in Successors(machine, _state) : Label(s) = Label(lastOp.state)
    /\ listenerRecs # <<>>

\* checkInState(expected) has thrown exactly if the current state is not the
\* object expected, checkInOneOfStates(set) exactly if the current state is not
\* an element of set, and the state is the one the call found.
C16_ThrowsIffNotInState ==
    /\ lastOp.op = "checkInState"
           => /\ lastOp.outcome = "Error" <=> _state # lastOp.state
              /\ lastOp.outcome = "ok" <=> _state = lastOp.state
              /\ lastOp.before = _state
    /\ lastOp.op = "checkInOneOfStates"
           => /\ lastOp.outcome = "Error" <=> _state \notin Range(lastOp.states)
              /\ lastOp.outcome = "ok" <=> _state \in Range(lastOp.states)
              /\ lastOp.before = _state

\* A call of checkInState or checkInOneOfStates, whether it returns or throws,
\* changes neither the state nor the listeners.
C16_ChecksChangeNothing ==
    (lastOp'.op \in {"checkInState", "checkInOneOfStates"} /\ stack = <<>>)
        => UNCHANGED <<_state, _transitionListeners, listenerRecs, stack, promises>>

\* C16: checkInState(expected) fails if and only if the current state is not
\* expected, checkInOneOfStates(set) if and only if the current state is not a
\* member of set; otherwise they do nothing, and in both outcomes the state and
\* the listener registry are unchanged.
C16_ChecksFailIffMismatch == []C16_ThrowsIffNotInState /\ [][C16_ChecksChangeNothing]_vars

\* checkInOneOfStates has thrown for an array holding a state with the label of
\* the current state but not the current state itself, with a listener registered.
C16_Witness ==
    /\ lastOp.op = "checkInOneOfStates"
    /\ lastOp.outcome = "Error"
    /\ \E s \in Range(lastOp.states) : Label(s) = Label(_state)
    /\ listenerRecs # <<>>

-----------------------------------------------------------------------------
(* Claims about the current state *)

Reachable(m) == Reach(m, {m.initialState})

\* The constructor was given an initial state and a table that stay within the
\* declared states.
WellFormed(m) ==
    /\ m.initialState \in StatesOf(m)
    /\ \A l \in DOMAIN m.validTransitions : Range(m.validTransitions[l]) \subseteq StatesOf(m)

\* C15 as stated: the current state is always one of the declared states and
\* reachable from the initial state by edges of the table.
C15_CurrentIsDeclaredAndReachable ==
    _state \in StatesOf(machine) /\ _state \in Reachable(machine)

\* C15, amended: the current state is always reachable from the initial state by
\* edges of the table, and it is one of the declared states whenever the initial
\* state and every state the table lists are declared.
C15_CurrentIsReachable ==
    /\ _state \in Reachable(machine)
    /\ WellFormed(machine) => _state \in StatesOf(machine)

\* On a machine whose arguments stay within the declared states, a setState whose
\* callbacks ran a nested transition has returned, with a wait and a cancelled
\* listener in place, in a state that is neither the initial state nor its target.
C15_Witness ==
    /\ WellFormed(machine)
    /\ IsSetState
    /\ lastOp.outcome = "ok"
    /\ ~NoNested
    /\ _state \notin {machine.initialState, lastOp.state}
    /\ promises # <<>>
    /\ cancelled # {}

-----------------------------------------------------------------------------
(* Claims about the decorators *)

\* The guard of the host's last guarded call was satisfied by the state the
\* call found.
GuardHolds ==
    CASE lastOp.op \in {"CheckStateIs", "AssumeStateIs"} -> lastOp.before = lastOp.state
      [] lastOp.op = "AssumeStateIsNot" -> lastOp.before # lastOp.state
      [] lastOp.op \in {"CheckStateIn", "AssumeStateIsIn"} ->
             lastOp.before \in Range(lastOp.states)
      [] lastOp.op \in {"CheckStateNotIn", "AssumeStateIsNotIn"} ->
             lastOp.before \notin Range(lastOp.states)

IsCheckedCall == lastOp.op \in {"CheckStateIs", "CheckStateIn", "CheckStateNotIn"}

IsAssumedCall ==
    lastOp.op \in {"AssumeStateIs", "AssumeStateIsNot", "AssumeStateIsIn", "AssumeStateIsNotIn"}

\* What C17 says of a checked call: the original method ran and its result was
\* returned if the guard held, else the call threw without running it; the
\* state is the one the call found.
CheckedAsClaimed ==
    /\ GuardHolds => /\ lastOp.outcome = "returned"
                     /\ lastOp.ran
                     /\ lastOp.result = OriginalResult
    /\ ~GuardHolds => lastOp.outcome = "threw" /\ ~lastOp.ran
    /\ _state = lastOp.before

\* C17: a method wrapped with CheckStateIs, CheckStateIn or CheckStateNotIn runs
\* the original method and returns its result if and only if the state at the
\* call satisfies the guard; otherwise it throws, the original method does not
\* run and the state is unchanged.
C17_CheckedRunsIffGuardHolds == IsCheckedCall => CheckedAsClaimed

\* The same for the decorators of decorators.ts alone.
C17_DecoratorsModule ==
    (IsCheckedCall /\ lastOp.module = "decorators") => CheckedAsClaimed

-----------------------------------------------------------------------------
(* Claims about the logger *)

\* What the engine does next in the current state, log output left out: the
\* effect of the invocation the running loop is about to make, and for every
\* state the outcome of setState with it and of a call guarded by AssumeStateIs
\* of it.
NextSteps ==
    [invoke |-> IF stack # <<>> /\ TopHasList /\ Top.index < Len(TopList)
                   /\ listenerRecs[TopList[Top.index + 1]].active
                THEN LET id == TopList[Top.index + 1]
                         eff == invokeCallBack(id, listenerRecs[id].callBack,
                                               Top.fromState, Top.toState)
                     IN  [eff EXCEPT !.logged = <<>>, !.stack = Settle(eff.stack, eff.tl)]
                ELSE Same,
     setState |-> [t \in StatesOf(machine) |-> checkTransition(machine, _state, t)],
     assumed |-> [s \in StatesOf(machine) |->
                     [AssumeStateIs(_state, s) EXCEPT !.warned = FALSE]]]

\* C19: the engine with a logger and the engine without one, in the same state,
\* take the same next step whatever the next call or invocation is: same state,
\* same stack of running loops, same listeners, same thrown or returned outcome;
\* only the log output differs.  Driven by the same calls the two engines hence
\* go through the same states and invoke the same listeners in the same order.
C19_LoggerDoesNotSteer == [][log' # log => NextSteps' = NextSteps]_vars

\* An engine without a logger has completed a setState in which a callback threw
\* and a later listener was still invoked, and nothing was logged.
C19_Witness ==
    /\ ~log
    /\ IsSetState
    /\ lastOp.outcome = "ok"
    /\ logged = <<>>
    /\ \E i \in 1..Len(trace) : \E j \in (i + 1)..Len(trace) : trace[i].threw

-----------------------------------------------------------------------------
(* Claims about the live list under reentrancy *)

\* How many times the dispatch at depth d invoked listener id.
InvokedAt(d, id) ==
    Cardinality({i \in 1..Len(trace) : trace[i].depth = d /\ trace[i].listener = id})

\* C20: when a setState whose callbacks may call setState, and cancel listeners,
\* has returned, the dispatch of its own transition has invoked exactly once
\* every listener that is active and accepts that transition, and no listener
\* twice.
C20_EveryActiveInvokedOnce ==
    (IsSetState /\ lastOp.outcome = "ok")
        => /\ \A id \in ActiveMatching(lastOp.before, lastOp.state) : InvokedAt(1, id) = 1
           /\ \A id \in 1..Len(listenerRecs) : InvokedAt(1, id) <= 1

-----------------------------------------------------------------------------
(* Claims about cancellation inside a running dispatch *)

\* The key under which listener id was registered.
KeyOf(id) == transitionLabel(listenerRecs[id].fromState, listenerRecs[id].toState)

\* Invocation i of the trace called cancel() on the handle of listener r.
CancelledAt(i, r) ==
    /\ listenerRecs[trace[i].listener].callBack.kind = "cancel"
    /\ listenerRecs[trace[i].listener].callBack.ref = r
    /\ ~trace[i].threw

\* Listener r had been invoked by invocation i or an earlier one.
ReachedBy(i, r) == \E k \in 1..i : trace[k].listener = r

\* C21: a listener on which a callback of the running dispatch called cancel() is
\* not invoked afterwards for that transition; and once setState has returned,
\* a listener accepting the transition that was cancelled before the loop
\* reached it is no longer in the list of its key.
C21_CancelInsideDispatch ==
    IsSetState =>
        \A i \in 1..Len(trace), r \in 1..Len(listenerRecs) :
            CancelledAt(i, r) =>
                /\ \A j \in (i + 1)..Len(trace) : trace[j].listener # r
                /\ (/\ lastOp.outcome = "ok"
                    /\ Matches(listenerRecs[r], lastOp.before, lastOp.state)
                    /\ ~ReachedBy(i, r))
                       => r \notin Range(_transitionListeners[KeyOf(r)])

\* PLAYING --> STOPPED has returned: the first listener invoked cancelled the
\* second, never cancelled before, which accepts the transition, is registered
\* under the same key or the key of a later phase, and was not invoked.
C21_Witness ==
    /\ IsSetState
    /\ lastOp.outcome = "ok"
    /\ lastOp.before = "PLAYING"
    /\ lastOp.state = "STOPPED"
    /\ Len(trace) = 1
    /\ trace[1].listener = 1
    /\ CancelledAt(1, 2)
    /\ cancelled = {<<2, "callback">>}
    /\ Group(listenerRecs[1]) <= Group(listenerRecs[2])
    /\ ~listenerRecs[2].active
    /\ 2 \notin Range(_transitionListeners[KeyOf(2)])

-----------------------------------------------------------------------------
(* Claims about the continuations of the promises *)

\* The continuation of promise p runs in this step.
Continues(p) ==
    /\ p \in 1..Len(promises)
    /\ ~promises[p].continued
    /\ promises'[p].continued

\* A callback of the running dispatch resolves promise p in this step.
ResolvesInDispatch(p) ==
    /\ p \in 1..Len(promises)
    /\ stack # <<>>
    /\ promises[p].status = "pending"
    /\ promises'[p].status = "resolved"

\* A continuation runs only while no setState is running, after the setState
\* that resolved its promise has returned, and changes nothing of the engine.
C22_ContinuationOutsideDispatch ==
    \A p \in 1..MaxWaits :
        Continues(p) =>
            /\ stack = <<>>
            /\ lastOp.outcome # "running"
            /\ promises[p].status = "resolved"
            /\ UNCHANGED <<_state, _transitionListeners, listenerRecs, stack, trace>>

\* The step of a callback that resolves a promise runs no continuation.
C22_ResolveDoesNotContinue ==
    \A p \in 1..MaxWaits :
        ResolvesInDispatch(p) =>
            \A q \in 1..Len(promises) : promises'[q].continued = promises[q].continued

-----------------------------------------------------------------------------
(* Claims about the compaction of the lists *)

\* The positions of listener id in the list of key.
PositionsIn(key, id) ==
    {i \in 1..Len(_transitionListeners[key]) : _transitionListeners[key][i] = id}

\* Every active record is in the list of its key, once, and in no other list;
\* every list holds its records in registration order.
C23_ActivePresentOnce ==
    /\ \A id \in 1..Len(listenerRecs) :
           listenerRecs[id].active =>
               /\ KeyOf(id) \in DOMAIN _transitionListeners
               /\ Cardinality(PositionsIn(KeyOf(id), id)) = 1
               /\ \A key \in DOMAIN _transitionListeners \ {KeyOf(id)} :
                      PositionsIn(key, id) = {}
    /\ \A key \in DOMAIN _transitionListeners :
           \A i \in 1..Len(_transitionListeners[key]), j \in 1..Len(_transitionListeners[key]) :
               i < j => _transitionListeners[key][i] < _transitionListeners[key][j]

\* A step removes from a list only records that are inactive.
C23_RemovesOnlyInactive ==
    \A key \in DOMAIN _transitionListeners :
        \A id \in Range(_transitionListeners[key]) :
            id \notin Range(_transitionListeners'[key]) => ~listenerRecs[id].active

\* C23: a dispatch removes from a list only inactive records and keeps the
\* others in registration order, so that after any registrations, cancellations
\* and transitions every active record is in the list of its key exactly once.
C23_LazyCompaction == []C23_ActivePresentOnce /\ [][C23_RemovesOnlyInactive]_vars

\* A setState has returned whose dispatch removed the cancelled first listener
\* from a list and invoked the second, registered under the same key after it,
\* which is now alone in the list.
C23_Witness ==
    /\ IsSetState
    /\ lastOp.outcome = "ok"
    /\ Len(listenerRecs) = 2
    /\ KeyOf(1) = KeyOf(2)
    /\ ~listenerRecs[1].active
    /\ listenerRecs[2].active
    /\ _transitionListeners[KeyOf(2)] = <<2>>
    /\ TraceListeners = {2}

-----------------------------------------------------------------------------
(* Claims about what changes the current state *)

\* This step invokes a callback.
Invokes == trace' # trace /\ trace' # <<>>

\* This step is a setState that passed checkTransition, or a step of its dispatch.
SetStateStep ==
    /\ lastOp'.op = "setState"
    /\ lastOp'.outcome \in {"ok", "running"}

\* A step that changes the current state or invokes a callback is a step of a
\* successful setState, and the new state is listed for the old one.
C24_OnlySetStateMoves ==
    /\ (_state' # _state \/ Invokes) => SetStateStep
    /\ _state' # _state => Listed(_state, _state')

\* C24: registering, cancelling, waiting, reading the state, the queries, the
\* assertions and a failed setState leave the current state unchanged and
\* invoke no callback.
C24_StateChangesOnlyBySetState == [][C24_OnlySetStateMoves]_vars

\* With an active listener accepting every transition registered, and a wait
\* pending, setState(DONE) has just failed in state IDLE.
C24_Witness ==
    /\ IsSetState
    /\ lastOp.outcome = "InvalidTransition"
    /\ lastOp.state = "DONE"
    /\ _state = "IDLE"
    /\ trace = <<>>
    /\ \E id \in 1..Len(listenerRecs) :
           listenerRecs[id].active /\ Group(listenerRecs[id]) = 4
    /\ Len(promises) = 1
    /\ promises[1].status = "pending"

-----------------------------------------------------------------------------
(* Claims about State objects that share a label *)

\* The labels of the filters of a listener record accept the transition f --> t.
LabelMatches(rec, f, t) ==
    /\ rec.fromState = Undefined \/ Label(rec.fromState) = Label(f)
    /\ rec.toState = Undefined \/ Label(rec.toState) = Label(t)

\* C25: listeners are found by the labels of their filters, so a listener
\* registered for a State object is invoked on transitions of another object
\* with the same label; setState looks up the entry of the current state's
\* label and searches it by identity; inState compares by identity.
C25_BucketsByLabel ==
    /\ IsSetState =>
           /\ lastOp.outcome \in {"ok", "running"}
                  <=> lastOp.state \in Range(machine.validTransitions[Label(lastOp.before)])
           /\ \A i \in 1..Len(trace) :
                  /\ trace[i].fromState = lastOp.before
                  /\ trace[i].toState = lastOp.state
           /\ lastOp.outcome = "ok"
                  => TraceListeners =
                         {id \in 1..Len(listenerRecs) :
                             LabelMatches(listenerRecs[id], lastOp.before, lastOp.state)}
    /\ lastOp.op = "inState" => (lastOp.outcome = "true" <=> lastOp.before = lastOp.state)

\* setState(Z) made in state X2, through the entry of label X, has returned: a
\* listener registered for leaving X1 was invoked with X2 as from.  setState(X1)
\* in state X2 would fail, X1 not being in that entry.
C25_Witness ==
    /\ IsSetState
    /\ lastOp.outcome = "ok"
    /\ lastOp.before = "X2"
    /\ lastOp.state = "Z"
    /\ trace # <<>>
    /\ listenerRecs[trace[1].listener].fromState = "X1"
    /\ trace[1].fromState = "X2"
    /\ ~canGoToState(machine, "X2", "X1").value

-----------------------------------------------------------------------------
(* Claims about what a callback finds *)

\* The target of the last setState that succeeded before invocation i: the one
\* of the latest earlier callback that started a nested transition, or the
\* host's.
LatestTarget(i) ==
    IF \E j \in 1..(i - 1) : trace[j].nested
    THEN LET j == CHOOSE j \in 1..(i - 1) :
                      trace[j].nested /\ \A k \in (j + 1)..(i - 1) : ~trace[k].nested
         IN  listenerRecs[trace[j].listener].callBack.to
    ELSE lastOp.state

\* C26 as stated: every callback invoked with (from, to) finds to as the
\* current state.
C26_StateIsTo ==
    \A i \in 1..Len(trace) : trace[i].state = trace[i].toState

\* C26, amended: every callback finds as current state the target of the last
\* setState that succeeded, which is its argument to when no callback of the
\* host's setState has started a nested transition before it.
C26_StateIsLatestTarget ==
    \A i \in 1..Len(trace) :
        /\ trace[i].state = LatestTarget(i)
        /\ (\A j \in 1..(i - 1) : ~trace[j].nested) => trace[i].state = trace[i].toState

\* The host's setState has returned: its first callback started a nested
\* transition to another state, and the listener the outer dispatch invoked
\* after it found that state, not its argument to.
C26_Witness ==
    /\ IsSetState
    /\ lastOp.outcome = "ok"
    /\ Len(trace) >= 2
    /\ trace[1].nested
    /\ trace[Len(trace)].depth = 1
    /\ trace[Len(trace)].toState = lastOp.state
    /\ trace[Len(trace)].state # lastOp.state

-----------------------------------------------------------------------------
(* Claims about the order in which a listener sees the transitions *)

\* The positions of the trace at which listener id was invoked.
SeenBy(id) == {i \in 1..Len(trace) : trace[i].listener = id}

\* Positions i < j are consecutive invocations of listener id.
Consecutive(id, i, j) ==
    /\ i \in SeenBy(id)
    /\ j \in SeenBy(id)
    /\ i < j
    /\ \A k \in (i + 1)..(j - 1) : k \notin SeenBy(id)

\* Listener id, registered with onAnyTransition, is active.
Observer(id) ==
    /\ id \in 1..Len(listenerRecs)
    /\ listenerRecs[id].active
    /\ Group(listenerRecs[id]) = 4

\* Within the host's setState, each invocation of the observer continues from
\* the to of its previous one.
Chained(id) ==
    \A i \in SeenBy(id), j \in SeenBy(id) :
        Consecutive(id, i, j) => trace[j].fromState = trace[i].toState

\* Every listener whose callback calls setState was registered with
\* onAnyTransition after listener id.
BeforeReentrant(id) ==
    \A l \in 1..Len(listenerRecs) :
        listenerRecs[l].callBack.kind = "setState" => (l > id /\ Group(listenerRecs[l]) = 4)

\* C27 as stated: the (from, to) pairs an active catch-all listener is invoked
\* with are chained, under direct and reentrant setState calls.
C27_ObserverSeesChain ==
    IsSetState => \A id \in 1..Len(listenerRecs) : Observer(id) => Chained(id)

\* C27, amended: under direct setState calls, and under reentrant ones made by
\* catch-all listeners registered after it, an active catch-all listener is
\* invoked first with the state the host's setState started from, then with
\* chained pairs, and last, when setState has returned, with the current state
\* as to.
C27_ObserverSeesChainWhenFirst ==
    IsSetState =>
        \A id \in 1..Len(listenerRecs) :
            (Observer(id) /\ (NoNested \/ BeforeReentrant(id))) =>
                /\ Chained(id)
                /\ \A i \in SeenBy(id) :
                       (\A k \in 1..(i - 1) : k \notin SeenBy(id))
                           => trace[i].fromState = lastOp.before
                /\ lastOp.outcome = "ok" =>
                       /\ SeenBy(id) # {}
                       /\ \A i \in SeenBy(id) :
                              (\A k \in (i + 1)..Len(trace) : k \notin SeenBy(id))
                                  => trace[i].toState = _state

\* setState(IDLE) has returned in state WORKING: the catch-all listener
\* registered first was invoked with (INIT, IDLE) and then, by the dispatch of
\* the transition that the second catch-all listener started, with
\* (IDLE, WORKING).
C27_Witness ==
    /\ IsSetState
    /\ lastOp.outcome = "ok"
    /\ lastOp.before = "INIT"
    /\ _state = "WORKING"
    /\ Observer(1)
    /\ BeforeReentrant(1)
    /\ ~NoNested
    /\ Cardinality(SeenBy(1)) = 2
    /\ \E i \in SeenBy(1) : trace[i].depth = 2 /\ trace[i].fromState = "IDLE"

-----------------------------------------------------------------------------
(* Claims about the value of waitUntilLeft *)

\* C28: the promise of waitUntilLeft(s) is never resolved with s itself, also
\* when the table lists s as its own successor.
C28_NeverResolvesWithItself ==
    \A p \in 1..Len(promises) :
        (promises[p].op = "waitUntilLeft" /\ promises[p].status = "resolved")
            => promises[p].value # promises[p].states[1]

-----------------------------------------------------------------------------
(* Claims about registration inside a running dispatch *)

\* Invocation i of the trace registered a listener.
Registers(i) ==
    /\ listenerRecs[trace[i].listener].callBack.kind = "register"
    /\ ~trace[i].threw

\* The number of listeners registered when the host called setState.
RegisteredBefore == Len(listenerRecs) - Cardinality({i \in 1..Len(trace) : Registers(i)})

\* The listener registered by invocation i.
RegisteredAt(i) == RegisteredBefore + Cardinality({k \in 1..i : Registers(k)})

\* C29: when setState has returned, a listener registered by a callback of its
\* dispatch was invoked for the transition, once and after that callback, if
\* and only if it accepts the transition and the phase of its key is the one
\* that was running or a later one.
C29_RegisteredInsideDispatch ==
    (IsSetState /\ lastOp.outcome = "ok") =>
        \A i \in 1..Len(trace) :
            Registers(i) =>
                LET r == RegisteredAt(i)
                IN  /\ r \in 1..Len(listenerRecs)
                    /\ listenerRecs[r].fromState = listenerRecs[trace[i].listener].callBack.from
                    /\ listenerRecs[r].toState = listenerRecs[trace[i].listener].callBack.to
                    /\ SeenBy(r) \subseteq (i + 1)..Len(trace)
                    /\ Cardinality(SeenBy(r)) <= 1
                    /\ SeenBy(r) # {}
                           <=> /\ Matches(listenerRecs[r], lastOp.before, lastOp.state)
                               /\ Group(listenerRecs[r]) >= trace[i].phase

\* PLAYING --> STOPPED has returned.  One listener was registered before it, a
\* catch-all listener whose callback registered another catch-all listener: the
\* loop, re-reading the length of the list, invoked that one too, so there were
\* more invocations than listeners when setState was called.
C29_Witness ==
    /\ IsSetState
    /\ lastOp.outcome = "ok"
    /\ lastOp.before = "PLAYING"
    /\ lastOp.state = "STOPPED"
    /\ RegisteredBefore = 1
    /\ Len(trace) = 2
    /\ Registers(1)
    /\ trace[1].phase = 4
    /\ Group(listenerRecs[RegisteredAt(1)]) = 4
    /\ SeenBy(RegisteredAt(1)) = {2}

=============================================================================
